---- MODULE Spec2Model ----
(***************************************************************************)
(* Terminal-Helper: the command-safety filter (safety.py) and the front    *)
(* ends that show AI-suggested shell commands and run them (app.py,        *)
(* ZaneAI.py, AuraAI.py, main.py).                                         *)
(*                                                                         *)
(* A Python str is a sequence of one-character strings; a rule table entry *)
(* is written as the string literal of the source and turned into such a   *)
(* sequence by Chars.                                                      *)
(***************************************************************************)
EXTENDS Integers, Sequences, FiniteSets, TLC

VARIABLES
    cmd,              \* the string handed to CommandSafety.check
    verdict,          \* what check returned
    pc,               \* the caller of check: "call", "done", or "idle"
    probe,            \* the rule under test, the example reached, a hit so far
    cls,              \* the class attributes of CommandSafety
    frames,           \* the local variables of the calls of check in progress
    callers,          \* the threads that call check: position, argument, result
    retry,            \* one call of _call_ai_with_retry: position, attempt, waits
    variant,          \* which front end runs: "app", "ZaneAI", "AuraAI" or "main"
    client,           \* self.client is set (an API key was found)
    exec_button,      \* state of self.exec_button: "disabled" or "normal"
    pending_commands, \* self.pending_commands / self.pending_command
    output_area,      \* what _log has written, in order
    threads,          \* the _ai_logic threads started by _process_input
    main_thread,      \* where the GUI thread is inside the Execute handler
    shell,            \* the calls of subprocess.run, in order
    clicks            \* number of Execute clicks so far

call_vars == <<cls, frames, callers>>
chk_vars == <<cmd, verdict, pc, probe, cls, frames, callers, retry>>
app_vars == <<variant, client, exec_button, pending_commands, output_area, threads,
              main_thread, shell, clicks>>
vars == <<cmd, verdict, pc, probe, cls, frames, callers, retry, variant, client, exec_button, pending_commands, output_area,
          threads, main_thread, shell, clicks>>

(***************************************************************************)
(* Characters and the str methods that check uses.                         *)
(***************************************************************************)
Chars(s) == [i \in 1..Len(s) |-> SubSeq(s, i, i)]

UpperLetters == Chars("ABCDEFGHIJKLMNOPQRSTUVWXYZ")
LowerLetters == Chars("abcdefghijklmnopqrstuvwxyz")
Digits == Chars("0123456789")

Range(f) == {f[i] : i \in DOMAIN f}

\* str.lower() / str.upper() on one character
LowerOf == [c \in Range(UpperLetters) |-> LowerLetters[CHOOSE i \in 1..26 : UpperLetters[i] = c]]
UpperOf == [c \in Range(LowerLetters) |-> UpperLetters[CHOOSE i \in 1..26 : LowerLetters[i] = c]]

CharLower(c) == IF c \in DOMAIN LowerOf THEN LowerOf[c] ELSE c
CharUpper(c) == IF c \in DOMAIN UpperOf THEN UpperOf[c] ELSE c

\* the lowercasing left out
lower_Identity(s) == s

\* str.lower()
lower(s) == [i \in 1..Len(s) |-> CharLower(s[i])]

\* the characters str.strip(), str.split() and the regex class \s treat as whitespace
Whitespace == {" ", "\t", "\n", "\r", "\f"}

\* str.strip()
strip(s) ==
    LET keep == {i \in 1..Len(s) : s[i] \notin Whitespace}
    IN  IF keep = {} THEN <<>>
        ELSE LET first == CHOOSE i \in keep : \A j \in keep : i <= j
                 last == CHOOSE i \in keep : \A j \in keep : j <= i
             IN  SubSeq(s, first, last)

\* str.split() with no separator: the maximal runs of non-whitespace, in order
RECURSIVE SplitFrom(_, _)
SplitFrom(s, i) ==
    IF i > Len(s) THEN <<>>
    ELSE IF s[i] \in Whitespace THEN SplitFrom(s, i + 1)
    ELSE LET stops == {j \in i..Len(s) : s[j] \in Whitespace}
             e == IF stops = {} THEN Len(s) + 1
                  ELSE CHOOSE j \in stops : \A k \in stops : j <= k
         IN  <<SubSeq(s, i, e - 1)>> \o SplitFrom(s, e)

\* str.split(" "): a field between every two spaces, empty fields kept
RECURSIVE split_OnSpace(_)
split_OnSpace(s) ==
    LET stops == {j \in 1..Len(s) : s[j] = " "}
    IN  IF stops = {} THEN <<s>>
        ELSE LET e == CHOOSE j \in stops : \A k \in stops : j <= k
             IN  <<SubSeq(s, 1, e - 1)>> \o split_OnSpace(SubSeq(s, e + 1, Len(s)))

split(s) == SplitFrom(s, 1)

\* sep.join(parts)
RECURSIVE join(_, _)
join(sep, parts) ==
    IF parts = <<>> THEN <<>>
    ELSE IF Len(parts) = 1 THEN parts[1]
    ELSE parts[1] \o sep \o join(sep, Tail(parts))

\* s.startswith(sub) in place of sub in s
Contains_Prefix(sub, s) ==
    Len(sub) <= Len(s) /\ SubSeq(s, 1, Len(sub)) = sub

\* sub in s
Contains(sub, s) ==
    \E i \in 1..(Len(s) - Len(sub) + 1) : SubSeq(s, i, i + Len(sub) - 1) = sub

(***************************************************************************)
(* re.search(pattern, string, re.IGNORECASE) for the pattern language the  *)
(* rule table uses: literals, escapes (\b, \s, \x), classes [...] with     *)
(* ranges, the dot, and the quantifiers + * ?.  A pattern is compiled to a *)
(* sequence of atoms; the search keeps the set of positions a match of the *)
(* atoms so far can end at, starting from every position of the string.    *)
(***************************************************************************)
Quantifiers == {"+", "*", "?"}

WordChars == Range(UpperLetters) \cup Range(LowerLetters) \cup Range(Digits) \cup {"_"}

\* the letters a range x-y of a class denotes
ClassRange(x, y) ==
    LET in(t) == IF x \in Range(t) /\ y \in Range(t)
                 THEN {t[k] : k \in (CHOOSE i \in DOMAIN t : t[i] = x)..(CHOOSE i \in DOMAIN t : t[i] = y)}
                 ELSE {}
    IN  in(LowerLetters) \cup in(UpperLetters) \cup in(Digits)

\* the members of a class: p[i] is the first character after "[" not yet read
RECURSIVE ClassChars(_, _)
ClassChars(p, i) ==
    IF p[i] = "]" THEN [set |-> {}, next |-> i + 1]
    ELSE IF p[i] = "\\"
         THEN LET rest == ClassChars(p, i + 2)
              IN  [set |-> {p[i + 1]} \cup rest.set, next |-> rest.next]
    ELSE IF p[i + 1] = "-" /\ p[i + 2] # "]"
         THEN LET rest == ClassChars(p, i + 3)
              IN  [set |-> ClassRange(p[i], p[i + 2]) \cup rest.set, next |-> rest.next]
    ELSE LET rest == ClassChars(p, i + 1)
         IN  [set |-> {p[i]} \cup rest.set, next |-> rest.next]

\* the atom that starts at p[i], without its quantifier
AtomAt(p, i) ==
    IF p[i] = "\\"
    THEN IF p[i + 1] = "b" THEN [kind |-> "boundary", set |-> {}, next |-> i + 2]
         ELSE IF p[i + 1] = "s" THEN [kind |-> "space", set |-> {}, next |-> i + 2]
         ELSE [kind |-> "chars", set |-> {p[i + 1]}, next |-> i + 2]
    ELSE IF p[i] = "[" THEN LET c == ClassChars(p, i + 1)
                            IN  [kind |-> "chars", set |-> c.set, next |-> c.next]
    ELSE IF p[i] = "." THEN [kind |-> "any", set |-> {}, next |-> i + 1]
    ELSE [kind |-> "chars", set |-> {p[i]}, next |-> i + 1]

RECURSIVE CompileFrom(_, _)
CompileFrom(p, i) ==
    IF i > Len(p) THEN <<>>
    ELSE LET a == AtomAt(p, i)
             quantified == a.next <= Len(p) /\ p[a.next] \in Quantifiers
             q == IF quantified THEN p[a.next] ELSE "1"
             n == IF quantified THEN a.next + 1 ELSE a.next
         IN  <<[kind |-> a.kind, set |-> {CharLower(c) : c \in a.set}, q |-> q]>>
                 \o CompileFrom(p, n)

re_compile(pattern) == CompileFrom(Chars(pattern), 1)

\* where the class that opens before p[i] ends: the index after its "]",
\* 0 when the pattern ends first
RECURSIVE ClassEnd(_, _)
ClassEnd(p, i) ==
    IF i > Len(p) THEN 0
    ELSE IF p[i] = "]" THEN i + 1
    ELSE IF p[i] = "\\" THEN ClassEnd(p, i + 2)
    ELSE ClassEnd(p, i + 1)

\* the re module compiles the pattern from p[i] on without raising re.error:
\* no escape or class cut off by the end of the pattern, no quantifier with
\* nothing to repeat (at the start, after \b, after another quantifier), no
\* parenthesis outside an escape or a class
RECURSIVE WellFormedFrom(_, _, _)
WellFormedFrom(p, i, repeatable) ==
    IF i > Len(p) THEN TRUE
    ELSE IF p[i] = "\\" THEN i + 1 <= Len(p) /\ WellFormedFrom(p, i + 2, p[i + 1] # "b")
    ELSE IF p[i] = "[" THEN ClassEnd(p, i + 1) # 0 /\ WellFormedFrom(p, ClassEnd(p, i + 1), TRUE)
    ELSE IF p[i] \in Quantifiers THEN repeatable /\ WellFormedFrom(p, i + 1, FALSE)
    ELSE IF p[i] \in {"(", ")"} THEN FALSE
    ELSE WellFormedFrom(p, i + 1, TRUE)

WellFormed(pattern) == WellFormedFrom(Chars(pattern), 1, FALSE)

\* one character against one atom, ignoring case
AtomMatches(a, c) ==
    CASE a.kind = "space" -> c \in Whitespace
      [] a.kind = "any" -> c # "\n"
      [] a.kind = "chars" -> CharLower(c) \in a.set
      [] OTHER -> FALSE

IsWordAt(s, i) == i \in 1..Len(s) /\ s[i] \in WordChars

\* the positions the atom can end at when it starts at a position of P
Step(a, s, P) ==
    IF a.kind = "boundary" THEN {p \in P : IsWordAt(s, p - 1) # IsWordAt(s, p)}
    ELSE LET one == {p + 1 : p \in {x \in P : x <= Len(s) /\ AtomMatches(a, s[x])}}
             run(lo) == {e \in lo..(Len(s) + 1) :
                            \E p \in P : p <= e /\ \A k \in p..(e - 1) : AtomMatches(a, s[k])}
         IN  CASE a.q = "1" -> one
               [] a.q = "?" -> P \cup one
               [] a.q = "*" -> run(1)
               [] a.q = "+" -> {e \in run(1) :
                                   \E p \in P : p < e /\ \A k \in p..(e - 1) : AtomMatches(a, s[k])}

\* the positions a match of atoms k.. can end at when it starts at a position
\* of P (A, Q and t are atoms, P and s, each evaluated once)
RECURSIVE RunAtoms(_, _, _, _)
RunAtoms(atoms, k, s, P) ==
    UNION {IF k > Len(A) \/ Q = {} THEN Q
           ELSE RunAtoms(A, k + 1, t, Step(A[k], t, Q)) : A \in {atoms}, Q \in {P}, t \in {s}}

\* re.search(pattern, s, re.IGNORECASE) is not None
re_search(compiled, s) == RunAtoms(compiled, 1, s, 1..(Len(s) + 1)) # {}

(***************************************************************************)
(* safety.py                                                               *)
(***************************************************************************)
DANGEROUS_PATTERNS == <<
    <<"\\brm\\s+-rf\\s+[/~\\$]", "Recursive delete of root or home">>,
    <<"\\brm\\s+-rf\\s+/", "Recursive delete including root path">>,
    <<"del\\s+/[sq]\\s+", "Delete with /s /q (tree wipe)">>,
    <<"rd\\s+/[sq]\\s+", "Remove directory tree">>,
    <<"\\bformat\\s+", "Disk format">>,
    <<"Format-Volume", "Format volume">>,
    <<"Clear-Disk", "Clear disk">>,
    <<"Remove-Item\\s+.*-Path\\s+['\"]?[/\\\\]", "Remove from root or system path">>,
    <<"dd\\s+.*of=/dev/sd", "Raw disk write">>,
    <<">\\s*/dev/sd[a-z]", "Overwrite block device">>,
    <<">\\s*/dev/nvme", "Overwrite NVMe">>,
    <<"\\bshutdown\\s+", "System shutdown">>,
    <<"\\breboot\\b", "System reboot">>,
    <<"Restart-Computer", "Restart computer">>,
    <<"Stop-Computer", "Stop computer">>,
    <<"Stop-Process\\s+-Id\\s+1", "Kill init process">>,
    <<"\\bbcdedit\\s+", "Boot config edit">>,
    <<"reg\\s+delete", "Registry delete">>,
    <<":\\(\\)\\s*\\{", "Fork bomb pattern">>,
    <<"\\$\\s*\\(\\s*\\$\\s*\\)", "Fork bomb ($())">>,
    <<"Disable-WindowsOptionalFeature", "Disable Windows feature">>,
    <<"wmic\\s+diskdrive\\s+delete", "Delete disk via WMIC">>,
    <<"DROP\\s+DATABASE", "Drop database">>,
    <<"DROP\\s+TABLE\\s+.*\\*", "Drop all tables">>,
    <<"TRUNCATE\\s+", "Truncate table">> >>

DANGEROUS_SUBSTRINGS == <<
    "rm -rf /",
    "rm -rf ~",
    "rm -rf /*",
    "rm -rf / ",
    "rm -rf $",
    "format c:",
    "format d:",
    "mkfs.ext",
    "mkfs.ntfs",
    ":(){ :|:& };:",
    "chmod -R 777 /",
    "chown -R" >>

\* the re module compiles a pattern once and keeps it
CompiledPatterns ==
    [i \in 1..Len(DANGEROUS_PATTERNS) |-> re_compile(DANGEROUS_PATTERNS[i][1])]

\* re.search(pattern, ...) looks the pattern up among the compiled ones and
\* compiles it when it is not there
Compiled(pattern) ==
    LET known == {j \in 1..Len(DANGEROUS_PATTERNS) : DANGEROUS_PATTERNS[j][1] = pattern}
    IN  IF known # {} THEN CompiledPatterns[CHOOSE j \in known : TRUE]
        ELSE re_compile(pattern)

\* substr.lower() for each substring rule
LoweredSubstrings ==
    [i \in 1..Len(DANGEROUS_SUBSTRINGS) |-> lower(Chars(DANGEROUS_SUBSTRINGS[i]))]

Safe == [is_safe |-> TRUE, reason |-> ""]
Blocked(text) == [is_safe |-> FALSE, reason |-> text]

\* a loop that reports the last hit instead of returning at the first
First_Last(hits) ==
    IF hits = {} THEN 0 ELSE CHOOSE i \in hits : \A j \in hits : j <= i

\* a for loop over a rule list that returns at its first hit: the least of
\* the indices that hit, 0 when none does
First(hits) ==
    IF hits = {} THEN 0 ELSE CHOOSE i \in hits : \A j \in hits : i <= j

\* the normalised forms check computes
cmd_lower_of(c) == lower(strip(c))

\* the pattern pass run on the raw command
cmd_norm_of_Raw(c) == c

cmd_norm_of(c) == join(<<" ">>, split(c))

\* for substr in DANGEROUS_SUBSTRINGS: if substr.lower() in cmd_lower
SubstringPass(cmd_lower) ==
    First({i \in 1..Len(DANGEROUS_SUBSTRINGS) : Contains(LoweredSubstrings[i], cmd_lower)})

\* re.match in place of re.search: the pattern anchored at the start
PatternPass_Match(cmd_norm) ==
    First({i \in 1..Len(DANGEROUS_PATTERNS) : RunAtoms(CompiledPatterns[i], 1, cmd_norm, {1}) # {}})

\* for pattern, reason in DANGEROUS_PATTERNS: if re.search(pattern, cmd_norm, re.IGNORECASE)
PatternPass(cmd_norm) ==
    First({i \in 1..Len(DANGEROUS_PATTERNS) : re_search(CompiledPatterns[i], cmd_norm)})

\* the message without its "Blocked: " head
SubstringReason_NoPrefix(i) == "potentially destructive (" \o DANGEROUS_SUBSTRINGS[i] \o ")"

SubstringReason(i) == "Blocked: potentially destructive (" \o DANGEROUS_SUBSTRINGS[i] \o ")"

\* the message built from the pattern instead of its reason text
PatternReason_Pattern(i) == "Blocked: " \o DANGEROUS_PATTERNS[i][1]

PatternReason(i) == "Blocked: " \o DANGEROUS_PATTERNS[i][2]

\* the two loops in the other order
check_PatternsFirst(c) ==
    IF c = <<>> \/ strip(c) = <<>> THEN Safe
    ELSE LET p == PatternPass(cmd_norm_of(c))
             s == SubstringPass(cmd_lower_of(c))
         IN  IF p # 0 THEN Blocked(PatternReason(p))
             ELSE IF s # 0 THEN Blocked(SubstringReason(s))
             ELSE Safe

check(c) ==
    IF c = <<>> \/ strip(c) = <<>> THEN Safe
    ELSE LET cmd_lower == cmd_lower_of(c)
             cmd_norm == cmd_norm_of(c)
             s == SubstringPass(cmd_lower)
         IN  IF s # 0 THEN Blocked(SubstringReason(s))
             ELSE LET p == PatternPass(cmd_norm)
                  IN  IF p # 0 THEN Blocked(PatternReason(p))
                      ELSE Safe

\* a class body whose pattern list holds an unterminated character class
ClassBody_BadPattern ==
    [DANGEROUS_PATTERNS |-> <<(<<"rm\\s+-rf\\s+[/~", "Recursive delete">>)>>,
     DANGEROUS_SUBSTRINGS |-> DANGEROUS_SUBSTRINGS]

\* the class object: its two attributes, as the class body leaves them
ClassBody ==
    [DANGEROUS_PATTERNS |-> DANGEROUS_PATTERNS, DANGEROUS_SUBSTRINGS |-> DANGEROUS_SUBSTRINGS]

\* the threads that call check
Callers == {1, 2}

NoFrame == [cmd |-> <<>>, cmd_lower |-> <<>>, cmd_norm |-> <<>>, i |-> 0]
NoCall == [pc |-> "idle", arg |-> <<>>, result |-> Safe, calls |-> 0]

\* nobody is calling check
NoCalls ==
    /\ cls = ClassBody
    /\ frames = [f \in Callers |-> NoFrame]
    /\ callers = [t \in Callers |-> NoCall]

(***************************************************************************)
(* The front ends.  app.py (TerminalHelperApp), ZaneAI.py (ZaneGUI) and    *)
(* AuraAI.py (AuraGUI) show a suggestion and enable an Execute button;     *)
(* main.py (AuraGUI) runs the suggestion itself.  _process_input runs on   *)
(* the GUI thread and starts one _ai_logic thread per request; a thread's  *)
(* statements interleave with the GUI thread's handlers and with the other *)
(* threads.                                                                *)
(***************************************************************************)
MaxRequests == 2
MaxClicks == 2

max_retries == 3

Variants == {"app", "ZaneAI", "AuraAI", "main"}

\* what the user types into the input field
UserTexts == {"", "list files"}

\* the commands a backend suggests
ListFiles == Chars("ls -la")
WipeRoot == Chars("rm -rf /")

\* response.choices[0].message.content: a command, several commands (app.py's
\* JSON "commands" list), none, small talk, or text that is no JSON
Responses == {
    [kind |-> "commands", commands |-> <<ListFiles>>],
    [kind |-> "commands", commands |-> <<WipeRoot>>],
    [kind |-> "commands", commands |-> <<ListFiles, WipeRoot>>],
    [kind |-> "commands", commands |-> <<>>],
    [kind |-> "talk", commands |-> <<Chars("hello")>>] }

\* the answers a front end that takes one raw command can get
SingleResponses == {r \in Responses : Len(r.commands) = 1}

Threads == 1..MaxRequests

NotStarted == [pc |-> "none", attempt |-> 0, commands |-> <<>>, i |-> 0]

Idle == [pc |-> "idle", list |-> <<>>, i |-> 0, click |-> 0, shown |-> {}, complete |-> {}]

\* the button variants use the OpenAI client with retries, the others ollama
UsesClient == variant \in {"app", "ZaneAI"}
HasButton == variant \in {"app", "ZaneAI", "AuraAI"}

\* _log / log: output_area.insert("end", text + "\n").  The model keeps the
\* lines that show a suggested command and leaves the other lines out
Log(kind, text) ==
    output_area' = IF kind = "suggestion" THEN Append(output_area, text) ELSE output_area

\* the commands written to the output area as suggestions so far
Shown == {output_area[k] : k \in 1..Len(output_area)}

\* the suggestions whose command list is written to the output area in full:
\* those of the threads that are past their last _log of a command
CompletelyShown ==
    {threads[t].commands :
        t \in {u \in Threads : /\ threads[u].pc \in {"enable_button", "auto_execute", "done"}
                               /\ threads[u].commands # <<>>}}

AppInit ==
    /\ variant \in Variants
    /\ client \in (IF variant \in {"app", "ZaneAI"} THEN BOOLEAN ELSE {FALSE})
    /\ exec_button = "disabled"
    /\ pending_commands = <<>>
    /\ output_area = <<>>
    /\ threads = [t \in Threads |-> NotStarted]
    /\ main_thread = Idle
    /\ shell = <<>>
    /\ clicks = 0

\* _process_input / process_input: the <Return> binding
ProcessInput ==
    /\ main_thread.pc = "idle"
    /\ \E t \in Threads, user_text \in UserTexts :
          /\ threads[t].pc = "none"
          /\ \A u \in 1..(t - 1) : threads[u].pc # "none"
          /\ IF user_text = ""
             THEN UNCHANGED <<output_area, exec_button, threads>>
             ELSE /\ Log("user", Chars(user_text))
                  /\ exec_button' = IF variant = "app" THEN "disabled" ELSE exec_button
                  /\ threads' = [threads EXCEPT ![t] = [@ EXCEPT !.pc = "ai_logic"]]
    /\ UNCHANGED chk_vars
    /\ UNCHANGED <<variant, client, pending_commands, main_thread, shell, clicks>>

\* _ai_logic up to the API call: without a client, an error line and return
AiLogicStart(t) ==
    /\ threads[t].pc = "ai_logic"
    /\ IF UsesClient /\ ~client
       THEN /\ Log("error", Chars("No API key"))
            /\ threads' = [threads EXCEPT ![t] = [@ EXCEPT !.pc = "done"]]
       ELSE /\ threads' = [threads EXCEPT ![t] = [@ EXCEPT !.pc = "call_ai", !.attempt = 0]]
            /\ UNCHANGED output_area
    /\ UNCHANGED chk_vars
    /\ UNCHANGED <<variant, client, exec_button, pending_commands, main_thread, shell, clicks>>

\* what follows a response in _ai_logic / ai_logic, before anything is shown
AfterResponse(t, r) ==
    IF variant = "app"
    THEN \* json.loads(raw); commands = data.get("commands", [])
         IF r.kind = "talk"
         THEN /\ Log("error", Chars("Failed to parse AI response"))
              /\ threads' = [threads EXCEPT ![t] = [@ EXCEPT !.pc = "done"]]
         ELSE IF r.commands = <<>>
         THEN /\ Log("info", Chars("No commands suggested."))
              /\ threads' = [threads EXCEPT ![t] = [@ EXCEPT !.pc = "done"]]
         ELSE /\ threads' = [threads EXCEPT ![t] =
                                [@ EXCEPT !.pc = "set_pending", !.commands = r.commands]]
              /\ UNCHANGED output_area
    ELSE IF variant = "main"
    THEN \* if ai_command and not any(x in ai_command.lower() for x in ["hello", "sorry", "i am"])
         IF r.kind = "talk"
         THEN /\ Log("chat", r.commands[1])
              /\ threads' = [threads EXCEPT ![t] = [@ EXCEPT !.pc = "done"]]
         ELSE /\ threads' = [threads EXCEPT ![t] =
                                [@ EXCEPT !.pc = "log_commands", !.commands = r.commands, !.i = 1]]
              /\ UNCHANGED output_area
    ELSE \* clean_command = re.sub(...): whatever came back is the command
         /\ threads' = [threads EXCEPT ![t] =
                           [@ EXCEPT !.pc = "set_pending", !.commands = r.commands]]
         /\ UNCHANGED output_area

\* one pass of the loop of _call_ai_with_retry: the call returns, or raises
\* a rate-limit error (retried while attempt < max_retries, RuntimeError
\* after), or raises another error (re-raised); _ai_logic logs what is raised
CallAiWithRetry(t) ==
    /\ UsesClient
    /\ threads[t].pc = "call_ai"
    /\ \/ \E r \in (IF variant = "app" THEN Responses ELSE SingleResponses) : AfterResponse(t, r)
       \/ IF threads[t].attempt < max_retries
          THEN /\ Log("retry", Chars("Rate limited. Retrying"))
               /\ threads' = [threads EXCEPT ![t] = [@ EXCEPT !.attempt = @ + 1]]
          ELSE /\ Log("error", Chars("Rate limit exceeded"))
               /\ threads' = [threads EXCEPT ![t] = [@ EXCEPT !.pc = "done"]]
       \/ /\ Log("error", Chars("Error"))
          /\ threads' = [threads EXCEPT ![t] = [@ EXCEPT !.pc = "done"]]
    /\ UNCHANGED chk_vars
    /\ UNCHANGED <<variant, client, exec_button, pending_commands, main_thread, shell, clicks>>

\* ollama.chat(...) in AuraAI.py and main.py: an answer or an exception
OllamaChat(t) ==
    /\ ~UsesClient
    /\ threads[t].pc = "call_ai"
    /\ \/ \E r \in SingleResponses : AfterResponse(t, r)
       \/ /\ Log("error", Chars("Error"))
          /\ threads' = [threads EXCEPT ![t] = [@ EXCEPT !.pc = "done"]]
    /\ UNCHANGED chk_vars
    /\ UNCHANGED <<variant, client, exec_button, pending_commands, main_thread, shell, clicks>>

\* self.pending_commands = [...] / self.pending_command = clean_command
SetPending(t) ==
    /\ threads[t].pc = "set_pending"
    /\ pending_commands' = threads[t].commands
    /\ threads' = [threads EXCEPT ![t] = [@ EXCEPT !.pc = "log_commands", !.i = 1]]
    /\ UNCHANGED chk_vars
    /\ UNCHANGED <<variant, client, exec_button, output_area, main_thread, shell, clicks>>

\* for i, c in enumerate(commands, 1): self._log(...) / self.log("... Suggests: ...")
LogSuggestion(t) ==
    /\ threads[t].pc = "log_commands"
    /\ Log("suggestion", threads[t].commands[threads[t].i])
    /\ threads' = [threads EXCEPT ![t] =
                      IF @.i < Len(@.commands) THEN [@ EXCEPT !.i = @ + 1]
                      ELSE [@ EXCEPT !.pc = IF variant = "main" THEN "auto_execute"
                                            ELSE "enable_button"]]
    /\ UNCHANGED chk_vars
    /\ UNCHANGED <<variant, client, exec_button, pending_commands, main_thread, shell, clicks>>

\* self.exec_button.configure(state="normal")
EnableButton(t) ==
    /\ threads[t].pc = "enable_button"
    /\ exec_button' = "normal"
    /\ threads' = [threads EXCEPT ![t] = [@ EXCEPT !.pc = "done"]]
    /\ UNCHANGED chk_vars
    /\ UNCHANGED <<variant, client, pending_commands, output_area, main_thread, shell, clicks>>

\* main.py: subprocess.run(ai_command, shell=True, ...) inside ai_logic
AutoExecute(t) ==
    /\ threads[t].pc = "auto_execute"
    /\ shell' = Append(shell, [cmd |-> threads[t].commands[1], click |-> 0, displayed |-> TRUE,
                                listed |-> TRUE])
    /\ Log("output", threads[t].commands[1])
    /\ threads' = [threads EXCEPT ![t] = [@ EXCEPT !.pc = "done"]]
    /\ UNCHANGED chk_vars
    /\ UNCHANGED <<variant, client, exec_button, pending_commands, main_thread, clicks>>

\* the user clicks Execute: a disabled button does not call its command.
\* _run_commands returns at once on an empty list, else starts its for loop
\* over the list it finds; run_shell_task logs "Executing: ..." first
ClickExecute ==
    /\ HasButton
    /\ exec_button = "normal"
    /\ main_thread.pc = "idle"
    /\ clicks < MaxClicks
    /\ clicks' = clicks + 1
    /\ IF variant = "app"
       THEN /\ main_thread' = IF pending_commands = <<>> THEN Idle
                              ELSE [pc |-> "run_commands", list |-> pending_commands, i |-> 1,
                                    click |-> clicks + 1, shown |-> Shown,
                                    complete |-> CompletelyShown]
            /\ UNCHANGED output_area
       ELSE /\ Log("executing", IF pending_commands = <<>> THEN <<>> ELSE pending_commands[1])
            /\ main_thread' = [pc |-> "run_shell_task", list |-> <<>>, i |-> 0,
                               click |-> clicks + 1, shown |-> Shown,
                               complete |-> CompletelyShown]
    /\ UNCHANGED chk_vars
    /\ UNCHANGED <<variant, client, exec_button, pending_commands, threads, shell>>

\* app.py: one pass of  for item in self.pending_commands: ... _run_shell_command(cmd)
RunCommand ==
    /\ main_thread.pc = "run_commands"
    /\ main_thread.i <= Len(main_thread.list)
    /\ LET c == main_thread.list[main_thread.i]
       IN  /\ shell' = Append(shell, [cmd |-> c, click |-> main_thread.click,
                                      displayed |-> c \in main_thread.shown,
                                      listed |-> main_thread.list \in main_thread.complete])
           /\ Log("executing", c)
    /\ main_thread' = [main_thread EXCEPT !.i = @ + 1]
    /\ UNCHANGED chk_vars
    /\ UNCHANGED <<variant, client, exec_button, pending_commands, threads, clicks>>

\* app.py: after the loop, self.pending_commands = []
ClearPending ==
    /\ main_thread.pc = "run_commands"
    /\ main_thread.i > Len(main_thread.list)
    /\ pending_commands' = <<>>
    /\ main_thread' = [main_thread EXCEPT !.pc = "disable_button"]
    /\ UNCHANGED chk_vars
    /\ UNCHANGED <<variant, client, exec_button, output_area, threads, shell, clicks>>

\* app.py: self.exec_button.configure(state="disabled"), the last statement
\* of _run_commands
RunCommandsEnd ==
    /\ main_thread.pc = "disable_button"
    /\ exec_button' = "disabled"
    /\ main_thread' = Idle
    /\ UNCHANGED chk_vars
    /\ UNCHANGED <<variant, client, pending_commands, output_area, threads, shell, clicks>>

\* ZaneAI.py, AuraAI.py: subprocess.run(self.pending_command, ...) with the
\* value the attribute has now; the button is disabled unless run raised
RunShellTask ==
    /\ main_thread.pc = "run_shell_task"
    /\ LET c == IF pending_commands = <<>> THEN <<>> ELSE pending_commands[1]
       IN  shell' = Append(shell, [cmd |-> c, click |-> main_thread.click,
                                   displayed |-> c \in main_thread.shown,
                                   listed |-> <<c>> \in main_thread.complete])
    /\ \/ exec_button' = "disabled"
       \/ UNCHANGED exec_button
    /\ main_thread' = Idle
    /\ UNCHANGED chk_vars
    /\ UNCHANGED <<variant, client, pending_commands, output_area, threads, clicks>>

ThreadStep(t) ==
    \/ AiLogicStart(t)
    \/ CallAiWithRetry(t)
    \/ OllamaChat(t)
    \/ SetPending(t)
    \/ LogSuggestion(t)
    \/ EnableButton(t)
    \/ AutoExecute(t)

AppNext ==
    \/ ProcessInput
    \/ \E t \in Threads : ThreadStep(t)
    \/ ClickExecute
    \/ RunCommand
    \/ ClearPending
    \/ RunCommandsEnd
    \/ RunShellTask

NoVerdict == [is_safe |-> TRUE, reason |-> "<not checked>"]

NoProbe == [rule |-> [kind |-> "none", i |-> 0], k |-> 0, hit |-> FALSE]

\* _call_ai_with_retry has not been called
NoRetry == [pc |-> "idle", attempt |-> 0, attempts |-> <<>>, slept |-> <<>>,
            e |-> <<>>, result |-> <<>>, raised |-> "none"]

Init ==
    /\ AppInit
    /\ cmd = <<>>
    /\ verdict = NoVerdict
    /\ pc = "idle"
    /\ probe = NoProbe
    /\ retry = NoRetry
    /\ NoCalls

Next == AppNext

Spec == Init /\ [][Next]_vars

(***************************************************************************)
(* The classifier on its own: the commands handed to check.  A command is  *)
(* a phrase (tokens separated by runs of whitespace), alone with optional  *)
(* padding, or two phrases chained with " && ".                            *)
(***************************************************************************)
MaxGap == 2

Templates == {
    <<"rm", "-rf", "/">>,
    <<"rm", "-rf", "~">>,
    <<"rm", "-rf", "$HOME">>,
    <<"rm", "-rf", "/*">>,
    <<"RM", "-RF", "/tmp">>,
    <<"xrm", "-rf", "/">>,
    <<"rm", "-r", "f">>,
    <<"FORMAT", "C:">>,
    <<"mkfs.ext4", "/dev/sda1">>,
    <<"chown", "-R", "root">>,
    <<"chmod", "-R", "777", "/">>,
    <<"shutdown", "now">>,
    <<"shutdown">>,
    <<"Reboot">>,
    <<"del", "/s", "x">>,
    <<"Drop", "Database", "x">>,
    <<":(){", ":|:&", "};:">>,
    <<"dd", "if=/dev/zero", "of=/dev/sda">>,
    <<"Remove-Item", "-Path", "/etc">>,
    <<"echo", "x", ">", "/dev/sdb">>,
    <<"Stop-Process", "-Id", "12">>,
    <<"reg", "delete", "HKLM">>,
    <<"Truncate", "t">>,
    <<"informat", "x">>,
    <<"echo", "hi">> }

Spaces(n) == [i \in 1..n |-> " "]

\* the runs of whitespace a gap between two tokens is drawn from
GapRuns == {Spaces(n) : n \in 1..MaxGap} \cup {<<"\t">>, <<"\n">>}

Pads == {<<>>, <<" ">>, <<"\n">>}

\* the tokens t (strings) with gaps[i] between token i and token i + 1
RECURSIVE Build(_, _)
Build(t, gaps) ==
    IF Len(t) = 1 THEN Chars(t[1])
    ELSE Chars(t[1]) \o gaps[1] \o Build(Tail(t), Tail(gaps))

SingleSpaced(t) == Build(t, [i \in 1..(Len(t) - 1) |-> <<" ">>])

Phrases == UNION {{Build(t, g) : g \in [1..(Len(t) - 1) -> GapRuns]} : t \in Templates}
UniformPhrases == UNION {{Build(t, [i \in 1..(Len(t) - 1) |-> g]) : g \in GapRuns} : t \in Templates}
PlainPhrases == {SingleSpaced(t) : t \in Templates}

Chain(a, b) == a \o Chars(" && ") \o b

Inputs ==
    {l \o p \o r : l \in Pads, r \in Pads, p \in {<<>>} \cup PlainPhrases}
        \cup Phrases
        \cup {Chain(a, b) : a \in UniformPhrases, b \in PlainPhrases}
        \cup {Chain(b, a) : a \in UniformPhrases, b \in PlainPhrases}

CheckInit ==
    /\ cmd \in Inputs
    /\ verdict = NoVerdict
    /\ pc = "call"
    /\ probe = NoProbe
    /\ retry = NoRetry
    /\ NoCalls
    /\ AppInit
    /\ variant = "app"
    /\ client

\* the caller's  is_safe, reason = CommandSafety.check(cmd)
Check ==
    /\ pc = "call"
    /\ verdict' = check(cmd)
    /\ pc' = "done"
    /\ UNCHANGED <<cmd, probe, retry>>
    /\ UNCHANGED call_vars
    /\ UNCHANGED app_vars

CheckNext == Check

SpecCheck == CheckInit /\ [][CheckNext]_vars

(***************************************************************************)
(* The rule definitions of the design, stated on the command itself.       *)
(***************************************************************************)
Done == pc = "done"

Blank(c) == \A i \in 1..Len(c) : c[i] \in Whitespace

\* the whitespace-normalised command: ends trimmed, every run of whitespace
\* one space, case kept
RECURSIVE CollapseFrom(_, _)
CollapseFrom(t, i) ==
    IF i > Len(t) THEN <<>>
    ELSE IF t[i] \notin Whitespace THEN <<t[i]>> \o CollapseFrom(t, i + 1)
    ELSE IF t[i - 1] \in Whitespace THEN CollapseFrom(t, i + 1)
    ELSE <<" ">> \o CollapseFrom(t, i + 1)

Normalized(c) == CollapseFrom(strip(c), 1)

\* substring rule i occurs in the trimmed, lowercased command
SubstringOccurs(i, c) ==
    LET text == Chars(DANGEROUS_SUBSTRINGS[i])
        hay == strip(c)
    IN  \E j \in 1..(Len(hay) - Len(text) + 1) :
            \A k \in 1..Len(text) : CharLower(hay[j + k - 1]) = CharLower(text[k])

\* pattern rule i finds a match in the whitespace-normalised command
PatternFinds(i, c) == re_search(CompiledPatterns[i], Normalized(c))

SubstringRules == 1..Len(DANGEROUS_SUBSTRINGS)
PatternRules == 1..Len(DANGEROUS_PATTERNS)

SomeSubstring(c) == \E i \in SubstringRules : SubstringOccurs(i, c)
SomePattern(c) == \E i \in PatternRules : PatternFinds(i, c)

FirstSubstring(c) ==
    CHOOSE i \in SubstringRules :
        SubstringOccurs(i, c) /\ \A j \in 1..(i - 1) : ~SubstringOccurs(j, c)

FirstPattern(c) ==
    CHOOSE i \in PatternRules :
        PatternFinds(i, c) /\ \A j \in 1..(i - 1) : ~PatternFinds(j, c)

\* C3: a non-blank command in which some substring rule occurs is blocked with
\* the reason "Blocked: potentially destructive (<s>)", s the text of the first
\* rule in list order that occurs, whatever later-listed rules occur too.
C3_FirstSubstringRuleReported ==
    (Done /\ ~Blank(cmd) /\ SomeSubstring(cmd)) =>
        verdict = [is_safe |-> FALSE,
                   reason |-> "Blocked: potentially destructive ("
                                  \o DANGEROUS_SUBSTRINGS[FirstSubstring(cmd)] \o ")"]

\* "chown -R" (rule 12) comes first in the command, "rm -rf /" (rule 1) is reported
C3_Witness ==
    /\ Done
    /\ SubstringOccurs(12, cmd) /\ SubstringOccurs(1, cmd) /\ SubstringOccurs(3, cmd)
    /\ verdict.reason = "Blocked: potentially destructive (rm -rf /)"

\* C4: a non-blank command in which no substring rule occurs and some pattern
\* rule matches the whitespace-normalised command is blocked with the reason
\* "Blocked: <r>", r the reason text of the first matching rule in list order.
C4_FirstPatternRuleReported ==
    (Done /\ ~Blank(cmd) /\ ~SomeSubstring(cmd) /\ SomePattern(cmd)) =>
        verdict = [is_safe |-> FALSE,
                   reason |-> "Blocked: " \o DANGEROUS_PATTERNS[FirstPattern(cmd)][2]]

\* reboot (rule 13) comes first in the command, shutdown (rule 12) is reported
C4_Witness ==
    /\ Done
    /\ ~SomeSubstring(cmd)
    /\ PatternFinds(12, cmd) /\ PatternFinds(13, cmd)
    /\ verdict.reason = "Blocked: System shutdown"

\* C5: check returns the safe verdict (TRUE, "") exactly when the command is
\* empty, is whitespace only, or is matched by no substring rule and by no
\* pattern rule.
C5_SafeIffNoRuleMatches ==
    Done =>
        /\ verdict.is_safe <=>
               (cmd = <<>> \/ Blank(cmd) \/ (~SomeSubstring(cmd) /\ ~SomePattern(cmd)))
        /\ verdict.is_safe => verdict.reason = ""

\* a keyword rule whose trailing \s+ has nothing left to match once the
\* command is trimmed: declared safe
C5_Witness ==
    /\ Done
    /\ cmd = Chars("shutdown\n")
    /\ ~Blank(cmd) /\ ~SomeSubstring(cmd) /\ ~SomePattern(cmd)
    /\ verdict = Safe

\* C6: when a substring rule and a pattern rule both match, the reason is the
\* substring rule's (the first-listed one that occurs) and never a pattern's.
C6_SubstringTakesPrecedence ==
    (Done /\ SomeSubstring(cmd) /\ SomePattern(cmd)) =>
        /\ verdict.reason = "Blocked: potentially destructive ("
                                \o DANGEROUS_SUBSTRINGS[FirstSubstring(cmd)] \o ")"
        /\ \A i \in PatternRules : verdict.reason # "Blocked: " \o DANGEROUS_PATTERNS[i][2]

\* the pattern match ("shutdown now") lies before the substring match ("chown -R")
C6_Witness ==
    /\ Done
    /\ cmd = Chars("shutdown now && chown -R root")
    /\ PatternFinds(12, cmd)
    /\ verdict.reason = "Blocked: potentially destructive (chown -R)"

\* the token spans of a command: <<first, last>> of every maximal run of
\* non-whitespace, in order
RECURSIVE SpansFrom(_, _)
SpansFrom(c, i) ==
    IF i > Len(c) THEN <<>>
    ELSE IF c[i] \in Whitespace THEN SpansFrom(c, i + 1)
    ELSE LET stops == {j \in i..Len(c) : c[j] \in Whitespace}
             e == IF stops = {} THEN Len(c) + 1
                  ELSE CHOOSE j \in stops : \A k \in stops : j <= k
         IN  <<(<<i, e - 1>>)>> \o SpansFrom(c, e)

Token(c, span) == SubSeq(c, span[1], span[2])
GapAfter(c, spans, i) == SubSeq(c, spans[i][2] + 1, spans[i + 1][1] - 1)

\* tokens i, i+1, i+2 of c are rm, -rf and a target starting with / ~ or $
RmRfAt(c, i) ==
    LET spans == SpansFrom(c, 1)
    IN  /\ i + 2 <= Len(spans)
        /\ Token(c, spans[i]) = Chars("rm")
        /\ Token(c, spans[i + 1]) = Chars("-rf")
        /\ c[spans[i + 2][1]] \in {"/", "~", "$"}

\* ... and the whitespace between them is not exactly one space each time
IrregularAt(c, i) ==
    LET spans == SpansFrom(c, 1)
    IN  GapAfter(c, spans, i) # <<" ">> \/ GapAfter(c, spans, i + 1) # <<" ">>

TokenIndexes(c) == 1..Len(SpansFrom(c, 1))

RecursiveDelete == [is_safe |-> FALSE, reason |-> "Blocked: Recursive delete of root or home"]

\* the positions of cmd that hold whitespace inside an occurrence of a
\* substring rule
RuleWhitespace(c) ==
    {k \in 1..Len(c) :
        /\ c[k] \in Whitespace
        /\ \E i \in SubstringRules :
              LET text == Chars(DANGEROUS_SUBSTRINGS[i])
              IN  \E j \in (k - Len(text) + 1)..k :
                      /\ j >= 1 /\ j + Len(text) - 1 <= Len(c)
                      /\ \A m \in 1..Len(text) : CharLower(c[j + m - 1]) = CharLower(text[m])}

\* c with the whitespace at k lengthened to run
Widen(c, k, run) == SubSeq(c, 1, k - 1) \o run \o SubSeq(c, k + 1, Len(c))

\* C7: a command blocked because a substring rule occurs in it stays blocked
\* when a run of whitespace inside that occurrence is lengthened (one space
\* made two spaces or a tab).
C7_SubstringRulesSurviveExtraWhitespace ==
    (Done /\ SomeSubstring(cmd) /\ ~verdict.is_safe) =>
        \A k \in RuleWhitespace(cmd) : \A run \in {<<" ", " ">>, <<"\t">>} :
            ~check(Widen(cmd, k, run)).is_safe

\* the command holds the three tokens, and wherever it does their spacing is
\* irregular
IrregularRmRf(c) ==
    /\ \E i \in TokenIndexes(c) : RmRfAt(c, i)
    /\ \A i \in TokenIndexes(c) : RmRfAt(c, i) => IrregularAt(c, i)

\* C8 as stated: a command holding the tokens rm, -rf and a target starting
\* with / ~ or $ is blocked, and when their spacing is not exactly single
\* spaces no substring rule matches and the verdict is the pattern pass's
\* "Blocked: Recursive delete of root or home".
C8_IrregularSpacingAlwaysPatternReason ==
    Done =>
        /\ (\E i \in TokenIndexes(cmd) : RmRfAt(cmd, i)) => ~verdict.is_safe
        /\ IrregularRmRf(cmd) => (~SomeSubstring(cmd) /\ verdict = RecursiveDelete)

\* C8 amended: such a command is always blocked; with irregular spacing the
\* verdict is the pattern pass's "Blocked: Recursive delete of root or home"
\* whenever no substring rule occurs anywhere in the trimmed, lowercased
\* command (one that occurs elsewhere is reported instead).
C8_RecursiveDeleteBlockedAnySpacing ==
    Done =>
        /\ (\E i \in TokenIndexes(cmd) : RmRfAt(cmd, i)) => ~verdict.is_safe
        /\ (IrregularRmRf(cmd) /\ ~SomeSubstring(cmd)) => verdict = RecursiveDelete

\* rm -rf in the middle of a command, a tab before the target
C8_Witness ==
    /\ Done
    /\ \E i \in TokenIndexes(cmd) :
          /\ i > 1
          /\ RmRfAt(cmd, i) /\ IrregularAt(cmd, i)
          /\ GapAfter(cmd, SpansFrom(cmd, 1), i + 1) = <<"\t">>
    /\ verdict = RecursiveDelete

\* the commands a blocked command is chained with
ChainPartners == {<<>>} \cup {SingleSpaced(t) : t \in {<<"echo", "hi">>, <<"a_">>}}

\* C9: if check(b) is unsafe then check(a && b) and check(b && a) are unsafe
\* for every command a.
C9_BlockedStaysBlockedWhenChained ==
    (Done /\ ~verdict.is_safe) =>
        \A a \in ChainPartners :
            /\ ~check(Chain(a, cmd)).is_safe
            /\ ~check(Chain(cmd, a)).is_safe

\* a command blocked by a word-bounded pattern only, chained after and before
\* a word
C9_Witness ==
    /\ Done
    /\ cmd = Chars("Reboot")
    /\ verdict.reason = "Blocked: System reboot"
    /\ check(Chain(Chars("a_"), cmd)) = verdict
    /\ check(Chain(cmd, Chars("a_"))) = verdict

\* str.upper() and str.swapcase()
upper(s) == [i \in 1..Len(s) |-> CharUpper(s[i])]
swapcase(s) == [i \in 1..Len(s) |-> IF s[i] \in DOMAIN LowerOf THEN LowerOf[s[i]] ELSE CharUpper(s[i])]

\* one letter of s in the other case
FlipAt(s, k) == [s EXCEPT ![k] = IF s[k] \in DOMAIN LowerOf THEN LowerOf[s[k]] ELSE CharUpper(s[k])]

CaseVariants(c) ==
    {upper(c), swapcase(c), [i \in 1..Len(c) |-> IF c[i] \in DOMAIN LowerOf THEN LowerOf[c[i]] ELSE c[i]]}
        \cup {FlipAt(c, k) : k \in {1, Len(c)} \cap (1..Len(c))}

\* C10: commands that differ only in the case of their letters get the same
\* is_safe and the same reason.
C10_CaseInsensitive ==
    Done => \A v \in CaseVariants(cmd) : check(v) = verdict

\* a command written in capitals, blocked by a substring rule like its
\* lowercase form
C10_Witness ==
    /\ Done
    /\ cmd = Chars("FORMAT C:")
    /\ verdict.reason = "Blocked: potentially destructive (format c:)"
    /\ check(Chars("format c:")) = verdict

(***************************************************************************)
(* The front ends and the classifier.                                      *)
(***************************************************************************)
Ran(k) == shell[k].cmd

\* C1: no command that check blocks is ever handed to the shell by the
\* Execute handlers (_run_commands, run_shell_task).
C1_BlockedCommandsNeverRun ==
    \A k \in 1..Len(shell) : shell[k].click > 0 => check(Ran(k)).is_safe

\* C2: every command handed to the shell was run by an Execute click, and was
\* on display in the output area when that click was made.
C2_RunOnlyAfterDisplayAndConfirmation ==
    \A k \in 1..Len(shell) : shell[k].click > 0 /\ shell[k].displayed

\* reason begins with "Blocked: "
StartsBlocked(reason) ==
    Len(reason) >= Len("Blocked: ") /\ SubSeq(reason, 1, Len("Blocked: ")) = "Blocked: "

\* C12: the verdict of check is well formed for every input: reason is ""
\* exactly when is_safe is TRUE, and when is_safe is FALSE the reason is
\* non-empty and begins with "Blocked: ".
C12_VerdictWellFormed ==
    Done =>
        /\ verdict.is_safe \in BOOLEAN
        /\ (verdict.reason = "") <=> verdict.is_safe
        /\ ~verdict.is_safe => (verdict.reason # "" /\ StartsBlocked(verdict.reason))

\* a command blocked by a substring rule between two safe commands
C12_Witness ==
    /\ Done
    /\ cmd = Chars("echo hi && chown -R root")
    /\ ~verdict.is_safe
    /\ verdict.reason = "Blocked: potentially destructive (chown -R)"
    /\ check(Chars("echo hi")) = [is_safe |-> TRUE, reason |-> ""]

\* C15: in app.py, under every interleaving of the _ai_logic threads with
\* _process_input and _run_commands, each command _run_commands hands to the
\* shell belongs to a suggestion whose command list was written to the output
\* area in full before the Execute click that ran it.
C15_RunOnlyWhatWasShownInFull ==
    variant = "app" => \A k \in 1..Len(shell) : shell[k].listed

\* C16: in app.py, in every reachable state in which no handler is in the
\* middle of its statements the Execute button is "normal" only if
\* pending_commands is non-empty, and when _run_commands completes
\* pending_commands is empty and the button is disabled.
C16_ButtonNormalOnlyWithPending ==
    /\ []((variant = "app" /\ main_thread.pc = "idle")
             => (exec_button = "normal" => pending_commands # <<>>))
    /\ [][(variant = "app" /\ RunCommandsEnd)
             => (pending_commands' = <<>> /\ exec_button' = "disabled")]_vars

(***************************************************************************)
(* One rule at a time: the commands built to match a rule are handed to    *)
(* check one after the other, and the run records whether one of them came *)
(* back with that rule's own text.                                         *)
(***************************************************************************)
AllRules ==
    {[kind |-> "substring", i |-> i] : i \in SubstringRules}
        \cup {[kind |-> "pattern", i |-> i] : i \in PatternRules}

\* the text a rule puts into its reason: the substring, or the reason string
RuleText(r) ==
    IF r.kind = "substring" THEN Chars(DANGEROUS_SUBSTRINGS[r.i])
    ELSE Chars(DANGEROUS_PATTERNS[r.i][2])

\* the rule matches the command
Matched(r, c) ==
    IF r.kind = "substring" THEN SubstringOccurs(r.i, c) ELSE PatternFinds(r.i, c)

\* a shortest string a compiled pattern matches: one character for each atom
\* that needs one, nothing for * and ?
RECURSIVE SampleFrom(_, _)
SampleFrom(atoms, k) ==
    IF k > Len(atoms) THEN <<>>
    ELSE LET a == atoms[k]
             one == CASE a.kind = "space" -> <<" ">>
                      [] a.kind = "any" -> <<"x">>
                      [] a.kind = "chars" -> <<CHOOSE c \in a.set : TRUE>>
                      [] OTHER -> <<>>
         IN  (IF a.q \in {"*", "?"} THEN <<>> ELSE one) \o SampleFrom(atoms, k + 1)

\* the example a rule is built to match
Sample(r) ==
    IF r.kind = "substring" THEN Chars(DANGEROUS_SUBSTRINGS[r.i])
    ELSE SampleFrom(CompiledPatterns[r.i], 1)

\* every space of s made two
RECURSIVE Doubled(_)
Doubled(s) ==
    IF s = <<>> THEN <<>>
    ELSE (IF Head(s) = " " THEN <<" ", " ">> ELSE <<Head(s)>>) \o Doubled(Tail(s))

\* the commands an example is tried in: alone, with an argument after it,
\* after another command, with its spaces doubled, in capitals
Contexts == <<"alone", "argument", "chained", "doubled", "doubled argument", "capitals">>

Example(r, k) ==
    LET s == Sample(r)
    IN  CASE Contexts[k] = "alone" -> s
          [] Contexts[k] = "argument" -> s \o Chars(" x")
          [] Contexts[k] = "chained" -> Chain(Chars("echo hi"), s)
          [] Contexts[k] = "doubled" -> Doubled(s)
          [] Contexts[k] = "doubled argument" -> Doubled(s) \o Chars(" x")
          [] Contexts[k] = "capitals" -> upper(s)

\* the verdict blocks the command and its reason holds the rule's own text
Reports(r, c, v) ==
    /\ Matched(r, c)
    /\ ~v.is_safe
    /\ v.reason # ""
    /\ Contains(RuleText(r), Chars(v.reason))

RulesInit ==
    /\ probe \in {[rule |-> r, k |-> 1, hit |-> FALSE] : r \in AllRules}
    /\ cmd = Example(probe.rule, 1)
    /\ verdict = NoVerdict
    /\ pc = "call"
    /\ retry = NoRetry
    /\ NoCalls
    /\ AppInit
    /\ variant = "app"
    /\ client

\* is_safe, reason = CommandSafety.check(example)
RunExample ==
    /\ pc = "call"
    /\ verdict' = check(cmd)
    /\ pc' = "done"
    /\ probe' = [probe EXCEPT !.hit = @ \/ Reports(probe.rule, cmd, check(cmd))]
    /\ UNCHANGED <<cmd, retry>>
    /\ UNCHANGED call_vars
    /\ UNCHANGED app_vars

\* the next example of the same rule
NextExample ==
    /\ pc = "done"
    /\ probe.k < Len(Contexts)
    /\ probe' = [probe EXCEPT !.k = @ + 1]
    /\ cmd' = Example(probe.rule, probe.k + 1)
    /\ verdict' = NoVerdict
    /\ pc' = "call"
    /\ UNCHANGED retry
    /\ UNCHANGED call_vars
    /\ UNCHANGED app_vars

RulesNext ==
    \/ RunExample
    \/ NextExample

SpecRules == RulesInit /\ [][RulesNext]_vars

AllTried == pc = "done" /\ probe.k = Len(Contexts)

\* C11: every rule is effective: for each entry of DANGEROUS_SUBSTRINGS and of
\* DANGEROUS_PATTERNS some command matched by the rule is blocked with a
\* non-empty reason that holds the rule's own text, so once all the examples
\* of a rule have been tried one of them has reported the rule.
C11_EveryRuleIsEffective ==
    AllTried => probe.hit

(***************************************************************************)
(* check called from several threads: each call runs statement by          *)
(* statement on its own frame of local variables and reads the class       *)
(* attributes; the statements of the calls interleave.                     *)
(***************************************************************************)
MaxCalls == 2

\* the arguments of the calls: empty, blank, hit by the last substring rule,
\* hit by a pattern rule in the middle of the list, and two lines hit by no
\* rule, with characters that mean something to a regular expression
CallInputs ==
    {<<>>, Chars(" \n"), Chars("chown -R x"), Chars("Reboot now"), Chars("ls\n[(*\\")}

\* one frame of locals for all the calls
frame_Shared(t) == 1

\* the frame of locals of the call thread t is in
frame(t) == t

Local(t) == frames[frame(t)]

CallsInit ==
    /\ NoCalls
    /\ cmd = <<>>
    /\ verdict = NoVerdict
    /\ pc = "idle"
    /\ probe = NoProbe
    /\ retry = NoRetry
    /\ AppInit
    /\ variant = "app"
    /\ client

\* return value: the caller has its result
Return(t, value) ==
    callers' = [callers EXCEPT ![t] = [@ EXCEPT !.pc = "returned", !.result = value]]

\* an exception leaves check and ends the thread
Raise(t) ==
    callers' = [callers EXCEPT ![t] = [@ EXCEPT !.pc = "raised"]]

Goto(t, label) ==
    callers' = [callers EXCEPT ![t] = [@ EXCEPT !.pc = label]]

\* CommandSafety.check(c): a new frame whose only local is the parameter
Call(t) ==
    /\ callers[t].pc \in {"idle", "returned"}
    /\ callers[t].calls < MaxCalls
    /\ \E c \in CallInputs :
          /\ frames' = [frames EXCEPT ![frame(t)] = [NoFrame EXCEPT !.cmd = c]]
          /\ callers' = [callers EXCEPT ![t] =
                            [pc |-> "test", arg |-> c, result |-> Safe,
                             calls |-> callers[t].calls + 1]]
    /\ UNCHANGED <<cmd, verdict, pc, probe, retry, cls>>
    /\ UNCHANGED app_vars

\* if not cmd or not cmd.strip(): return True, ""
TestBlank(t) ==
    /\ callers[t].pc = "test"
    /\ IF Local(t).cmd = <<>> \/ strip(Local(t).cmd) = <<>>
       THEN Return(t, Safe)
       ELSE Goto(t, "lower")
    /\ UNCHANGED <<cmd, verdict, pc, probe, retry, cls, frames>>
    /\ UNCHANGED app_vars

\* cmd_lower = cmd.strip().lower()
AssignLower(t) ==
    /\ callers[t].pc = "lower"
    /\ frames' = [frames EXCEPT ![frame(t)] = [@ EXCEPT !.cmd_lower = lower(strip(Local(t).cmd))]]
    /\ Goto(t, "norm")
    /\ UNCHANGED <<cmd, verdict, pc, probe, retry, cls>>
    /\ UNCHANGED app_vars

\* cmd_norm = " ".join(cmd.split())
AssignNorm(t) ==
    /\ callers[t].pc = "norm"
    /\ frames' = [frames EXCEPT ![frame(t)] = [@ EXCEPT !.cmd_norm = join(<<" ">>, split(Local(t).cmd)),
                                                         !.i = 1]]
    /\ Goto(t, "substrings")
    /\ UNCHANGED <<cmd, verdict, pc, probe, retry, cls>>
    /\ UNCHANGED app_vars

\* one pass of  for substr in cls.DANGEROUS_SUBSTRINGS
SubstringLoop(t) ==
    /\ callers[t].pc = "substrings"
    /\ LET i == Local(t).i
           list == cls.DANGEROUS_SUBSTRINGS
       IN  IF i > Len(list)
           THEN /\ frames' = [frames EXCEPT ![frame(t)] = [@ EXCEPT !.i = 1]]
                /\ Goto(t, "patterns")
           ELSE IF Contains(lower(Chars(list[i])), Local(t).cmd_lower)
           THEN /\ Return(t, Blocked("Blocked: potentially destructive (" \o list[i] \o ")"))
                /\ UNCHANGED frames
           ELSE /\ frames' = [frames EXCEPT ![frame(t)] = [@ EXCEPT !.i = @ + 1]]
                /\ UNCHANGED callers
    /\ UNCHANGED <<cmd, verdict, pc, probe, retry, cls>>
    /\ UNCHANGED app_vars

\* one pass of  for pattern, reason in cls.DANGEROUS_PATTERNS  (re.search
\* raises re.error on a pattern it cannot compile);  after the last one,
\* return True, ""
PatternLoop(t) ==
    /\ callers[t].pc = "patterns"
    /\ LET i == Local(t).i
           list == cls.DANGEROUS_PATTERNS
       IN  IF i > Len(list)
           THEN /\ Return(t, Safe)
                /\ UNCHANGED frames
           ELSE IF ~WellFormed(list[i][1])
           THEN /\ Raise(t)
                /\ UNCHANGED frames
           ELSE IF re_search(Compiled(list[i][1]), Local(t).cmd_norm)
           THEN /\ Return(t, Blocked("Blocked: " \o list[i][2]))
                /\ UNCHANGED frames
           ELSE /\ frames' = [frames EXCEPT ![frame(t)] = [@ EXCEPT !.i = @ + 1]]
                /\ UNCHANGED callers
    /\ UNCHANGED <<cmd, verdict, pc, probe, retry, cls>>
    /\ UNCHANGED app_vars

CallerStep(t) ==
    \/ Call(t)
    \/ TestBlank(t)
    \/ AssignLower(t)
    \/ AssignNorm(t)
    \/ SubstringLoop(t)
    \/ PatternLoop(t)

CallsNext == \E t \in Callers : CallerStep(t)

SpecCalls == CallsInit /\ [][CallsNext]_vars

Returned(t) == callers[t].pc = "returned"

\* C13: check is stateless: the class attributes are never written, and under
\* every interleaving of calls from several threads and every sequence of
\* earlier calls a call returns the verdict check gives its argument on its
\* own; two calls with the same argument return identical verdicts.
C13_Stateless ==
    /\ cls = ClassBody
    /\ \A t \in Callers : Returned(t) => callers[t].result = check(callers[t].arg)
    /\ \A t, u \in Callers :
           (Returned(t) /\ Returned(u) /\ callers[t].arg = callers[u].arg)
               => callers[t].result = callers[u].result

\* a second call of a thread has returned its blocked verdict while the other
\* thread is inside the pattern loop of a call on another command
C13_Witness ==
    /\ Returned(1) /\ callers[1].calls = 2
    /\ callers[1].result = Blocked("Blocked: potentially destructive (chown -R)")
    /\ callers[2].pc = "patterns" /\ callers[2].arg = Chars("ls\n[(*\\")
    /\ frames[2].i > 1

\* a thread inside check keeps running
SpecCallsFair ==
    SpecCalls /\ \A t \in Callers :
        WF_vars(TestBlank(t) \/ AssignLower(t) \/ AssignNorm(t) \/ SubstringLoop(t) \/ PatternLoop(t))

InCheck(t) == callers[t].pc \in {"test", "lower", "norm", "substrings", "patterns"}

\* C14: check is total: on every input string (empty, whitespace only,
\* several lines, arbitrary characters) a call never raises, it terminates,
\* what it returns is a verdict, and an input matched by no rule gets the
\* safe verdict.
C14_Total ==
    /\ [](\A t \in Callers : callers[t].pc # "raised")
    /\ [](\A t \in Callers : Returned(t) =>
             /\ callers[t].result.is_safe \in BOOLEAN
             /\ (~SomeSubstring(callers[t].arg) /\ ~SomePattern(callers[t].arg))
                    => callers[t].result = Safe)
    /\ \A t \in Callers : InCheck(t) ~> Returned(t)

\* the call on the two-line input has gone through both loops and returned
\* safe, after a call on the empty string
C14_Witness ==
    /\ Returned(1) /\ callers[1].calls = 2
    /\ callers[1].arg = Chars("ls\n[(*\\")
    /\ frames[1].i = Len(DANGEROUS_PATTERNS) + 1
    /\ callers[1].result = Safe
    /\ Returned(2) /\ callers[2].arg = <<>>

(***************************************************************************)
(* _call_ai_with_retry (app.py, ZaneAI.py) on its own: one call, from its  *)
(* first attempt to its return or raise.  The API answers each attempt     *)
(* with a response or with an exception carrying a message.                *)
(***************************************************************************)
\* str(e) of the exceptions client.chat.completions.create raises
ErrorMessages ==
    {Chars("Error code: 429"), Chars("Rate limit exceeded"), Chars("Failed to generate"),
     Chars("Connection error"), Chars("Error code: 401")}

\* response.choices[0].message.content
Contents == {Chars(" ls -la\n"), Chars("echo hi")}

\* err_str = str(e).lower();  "429" in err_str or "rate" in err_str
IsRateLimit(e) ==
    LET err_str == lower(e)
    IN  Contains(Chars("429"), err_str) \/ Contains(Chars("rate"), err_str)

\* a wait that grows by two seconds per attempt
Wait_Linear(attempt) == 2 * (attempt + 1)

\* wait = 2 ** (attempt + 1)
Wait(attempt) == 2 ^ (attempt + 1)

RetryInit ==
    /\ retry = [NoRetry EXCEPT !.pc = "try"]
    /\ cmd = <<>>
    /\ verdict = NoVerdict
    /\ pc = "idle"
    /\ probe = NoProbe
    /\ NoCalls
    /\ AppInit
    /\ UsesClient
    /\ client

\* try: response = self.client.chat.completions.create(...);
\*      return response.choices[0].message.content.strip()
\* except Exception as e:
CallApi ==
    /\ retry.pc = "try"
    /\ \/ \E content \in Contents :
             retry' = [retry EXCEPT !.attempts = Append(@, [ok |-> TRUE, text |-> content]),
                                    !.result = strip(content),
                                    !.pc = "returned"]
       \/ \E m \in ErrorMessages :
             retry' = [retry EXCEPT !.attempts = Append(@, [ok |-> FALSE, text |-> m]),
                                    !.e = m,
                                    !.pc = "except"]
    /\ UNCHANGED <<cmd, verdict, pc, probe, cls, frames, callers>>
    /\ UNCHANGED app_vars

\* the except clause: a rate-limit error is waited out and the loop goes on
\* while attempt < max_retries, and becomes a RuntimeError after that; any
\* other error is raised again.  When the loop runs out, raise last_exc
HandleError ==
    /\ retry.pc = "except"
    /\ IF IsRateLimit(retry.e)
       THEN IF retry.attempt < max_retries
            THEN retry' = [retry EXCEPT !.slept = Append(@, Wait(retry.attempt)),
                                        !.attempt = @ + 1,
                                        !.pc = IF retry.attempt + 1 <= max_retries THEN "try"
                                               ELSE "raised",
                                        !.raised = IF retry.attempt + 1 <= max_retries THEN "none"
                                                   ELSE "last_exc"]
            ELSE retry' = [retry EXCEPT !.pc = "raised", !.raised = "RuntimeError"]
       ELSE retry' = [retry EXCEPT !.pc = "raised", !.raised = "reraised"]
    /\ UNCHANGED <<cmd, verdict, pc, probe, cls, frames, callers>>
    /\ UNCHANGED app_vars

RetryNext ==
    \/ CallApi
    \/ HandleError

SpecRetry == RetryInit /\ [][RetryNext]_vars

\* an attempt comes back (the client has a timeout) and the thread goes on
SpecRetryFair == SpecRetry /\ WF_vars(RetryNext)

\* the messages of the pool that count as rate-limit errors: they hold "429"
\* or "rate" in some case
RateLimitMessages ==
    {Chars("Error code: 429"), Chars("Rate limit exceeded"), Chars("Failed to generate")}

RetryOver == retry.pc \in {"returned", "raised"}

LastAttempt == retry.attempts[Len(retry.attempts)]

\* C17: _call_ai_with_retry always terminates after at most max_retries + 1
\* API attempts: it returns the first successful response, makes a further
\* attempt only after an error classified as rate-limit, waiting 2, 4, 8, ...
\* = 2^(attempt+1) seconds before it, re-raises any other error at once, and
\* raises RuntimeError when the last allowed attempt is rate-limited.
C17_RetryTerminates ==
    /\ [](Len(retry.attempts) <= max_retries + 1)
    /\ [](\A j \in 1..(Len(retry.attempts) - 1) :
             ~retry.attempts[j].ok /\ retry.attempts[j].text \in RateLimitMessages)
    /\ [](/\ \A j \in 1..Len(retry.slept) : retry.slept[j] = 2 ^ j
          /\ retry.pc = "try" => Len(retry.slept) = Len(retry.attempts)
          /\ RetryOver => Len(retry.slept) = Len(retry.attempts) - 1)
    /\ [](retry.pc = "returned" =>
             LastAttempt.ok /\ retry.result = strip(LastAttempt.text))
    /\ [](retry.pc = "raised" =>
             /\ ~LastAttempt.ok
             /\ IF LastAttempt.text \in RateLimitMessages
                THEN Len(retry.attempts) = max_retries + 1 /\ retry.raised = "RuntimeError"
                ELSE retry.raised = "reraised" /\ retry.e = LastAttempt.text)
    /\ <>RetryOver

\* three rate-limit errors waited out for 2, 4 and 8 seconds, then a response
C17_Witness ==
    /\ retry.pc = "returned"
    /\ Len(retry.attempts) = max_retries + 1
    /\ retry.attempts[1].text = Chars("Failed to generate")
    /\ retry.attempts[2].text = Chars("Error code: 429")
    /\ retry.attempts[3].text = Chars("Rate limit exceeded")
    /\ retry.slept = <<2, 4, 8>>
    /\ retry.result = Chars("ls -la")

(***************************************************************************)
(* The pattern rules that end in \s+ : the commands handed to check hold   *)
(* one of their keywords at the end, before an argument, or after another  *)
(* command.                                                                *)
(***************************************************************************)
\* s ends with t
EndsWith(s, t) == Len(t) <= Len(s) /\ SubSeq(s, Len(s) - Len(t) + 1, Len(s)) = t

\* the rules of DANGEROUS_PATTERNS whose expression ends in \s+
TrailingSpaceRules ==
    {i \in PatternRules : EndsWith(Chars(DANGEROUS_PATTERNS[i][1]), Chars("\\s+"))}

\* the keywords as commands write them
KeywordTemplates ==
    {<<"format">>, <<"shutdown">>, <<"SHUTDOWN">>, <<"bcdedit">>, <<"truncate">>,
     <<"del", "/s">>, <<"del", "/q">>, <<"rd", "/s">>, <<"rd", "/Q">>}

\* what follows a keyword
ArgumentTemplates == {<<"now">>, <<"x">>, <<"/q">>, <<"-h", "now">>, <<"&&", "ls">>}

\* what comes before it
Before ==
    {Chars("echo x"), Chars("rm -rf /"), Chars("shutdown now"), Chars("del /s x"), Chars("reboot")}

\* the whitespace a command ends with
TrailingRuns == {<<>>, <<"\n">>} \cup {Spaces(n) : n \in 1..(MaxGap + 1)}

KeywordInputs ==
    {l \o SingleSpaced(k) \o r : k \in KeywordTemplates, l \in Pads, r \in TrailingRuns}
        \cup {Build(k \o a, [i \in 1..(Len(k \o a) - 1) |-> g]) :
                 k \in KeywordTemplates, a \in ArgumentTemplates, g \in GapRuns}
        \cup {Chain(b, SingleSpaced(k)) \o r : b \in Before, k \in KeywordTemplates, r \in TrailingRuns}
        \cup {Chars(x) \o SingleSpaced(k) \o Chars(y) :
                 k \in KeywordTemplates, x \in {"x", "-"}, y \in {" x", ".exe x"}}

KeywordInit ==
    /\ cmd \in KeywordInputs
    /\ verdict = NoVerdict
    /\ pc = "call"
    /\ probe = NoProbe
    /\ retry = NoRetry
    /\ NoCalls
    /\ AppInit
    /\ variant = "app"
    /\ client

SpecKeywords == KeywordInit /\ [][CheckNext]_vars

\* the keyword of each of these rules, token by token, in lower case
KeywordWords(i) ==
    CASE i = 3  -> <<{Chars("del")}, {Chars("/s"), Chars("/q")}>>
      [] i = 4  -> <<{Chars("rd")}, {Chars("/s"), Chars("/q")}>>
      [] i = 5  -> <<{Chars("format")}>>
      [] i = 12 -> <<{Chars("shutdown")}>>
      [] i = 17 -> <<{Chars("bcdedit")}>>
      [] i = 25 -> <<{Chars("truncate")}>>

\* the rules whose keyword has to start at a word boundary
WordBounded(i) == SubSeq(Chars(DANGEROUS_PATTERNS[i][1]), 1, 2) = Chars("\\b")

\* the tokens of c from the j-th on spell the keyword of rule i; the first of
\* them may carry more in front of the keyword
KeywordAt(i, c, j) ==
    LET spans == SpansFrom(c, 1)
        w == KeywordWords(i)
    IN  /\ j >= 1 /\ j + Len(w) - 1 <= Len(spans)
        /\ \E head \in w[1] :
               LET first == lower(Token(c, spans[j]))
               IN  /\ EndsWith(first, head)
                   /\ WordBounded(i) =>
                          \/ Len(first) = Len(head)
                          \/ first[Len(first) - Len(head)] \notin WordChars
        /\ \A m \in 2..Len(w) : lower(Token(c, spans[j + m - 1])) \in w[m]

\* the same, the first token being the keyword and nothing more
KeywordTokensAt(i, c, j) ==
    /\ KeywordAt(i, c, j)
    /\ lower(Token(c, SpansFrom(c, 1)[j])) \in KeywordWords(i)[1]

\* somewhere in c the keyword of rule i has another token after it
KeywordBeforeToken(i, c) ==
    \E j \in 1..Len(SpansFrom(c, 1)) :
        KeywordAt(i, c, j) /\ j + Len(KeywordWords(i)) - 1 < Len(SpansFrom(c, 1))

\* the last tokens of c are the keyword of rule i
KeywordLast(i, c) ==
    KeywordTokensAt(i, c, Len(SpansFrom(c, 1)) - Len(KeywordWords(i)) + 1)

\* nothing but the rules ending in \s+ could match c
NoOtherRule(c) ==
    /\ ~SomeSubstring(c)
    /\ \A i \in PatternRules \ TrailingSpaceRules : ~PatternFinds(i, c)

====
